---- MODULE Spec2Model ----
(***************************************************************************)
(* Model of docs/generatemd4.py: the spreadsheet-to-markdown generator.   *)
(*                                                                         *)
(* A text (a Python str) is a sequence of atoms.  An atom is a lexeme the  *)
(* program's regular expressions and string tests tell apart: a newline,   *)
(* a blank, a markdown rule, an HTML tag, the footer marker, the image     *)
(* reference, a word, or (in spreadsheet cells) a single character.        *)
(***************************************************************************)
EXTENDS Integers, Sequences, FiniteSets, TLC

VARIABLES
    pc,        \* position of the scenario being run
    \* the footer normaliser applied twice
    md_body,   \* ensure_eu_block_at_end: the argument
    once,      \* ensure_eu_block_at_end(md_body)
    twice,     \* ensure_eu_block_at_end(once)
    \* the output directory
    files,     \* path -> text of the file, for the paths that exist
    \* repeated upserts of one page
    origin,    \* how the page's file started: absent, a generated page, raw text
    front,     \* the new_frontmatter_block of the latest upsert
    calls,     \* upsert_markdown_file calls made so far
    \* build_frontmatter and its dump
    args,      \* the keyword arguments of build_frontmatter
    frontmatter, \* the dict it returns
    block,     \* safe_frontmatter_dump(frontmatter)
    \* main
    sheet,     \* the spreadsheet: the data frame read_excel(...).fillna("") gives
    title_by_page_id,
    parent_by_page_id,
    row,       \* index of the next row of the loop
    wrote,
    skipped,
    passed     \* per upsert of the loop: the path and the nav_order passed on

footerVars == <<md_body, once, twice>>
upsertVars == <<origin, front, calls>>
fmVars     == <<args, frontmatter, block>>
mainVars   == <<sheet, title_by_page_id, parent_by_page_id, row, wrote, skipped, passed>>

vars == <<pc, footerVars, files, upsertVars, fmVars, mainVars>>

(***************************************************************************)
(* Atoms                                                                   *)
(***************************************************************************)
NL     == "\n"
SP     == " "
TXT    == "text"
MDHR   == "---"
HR     == "<hr>"
TOPEN  == "<table"
TCLOSE == "</table>"
DOPEN  == "<div"
DCLOSE == "</div>"
IMG    == "eu-funded.jpg"

\* str.isspace of one atom (what \s, strip and rstrip treat as whitespace)
IsSpace(a) == a \in {NL, SP}

RECURSIVE rstrip(_)
rstrip(s) ==
    IF s = <<>> THEN <<>>
    ELSE IF IsSpace(s[Len(s)]) THEN rstrip(SubSeq(s, 1, Len(s) - 1))
    ELSE s

RECURSIVE lstrip(_)
lstrip(s) ==
    IF s = <<>> THEN <<>>
    ELSE IF IsSpace(s[1]) THEN lstrip(Tail(s))
    ELSE s

strip(s) == lstrip(rstrip(s))

\* Where \s* stops when an atom that is not whitespace has to follow it:
\* the first position from p on that holds no whitespace (Len(s) + 1 at the end).
RECURSIVE SkipSpace(_, _)
SkipSpace(s, p) ==
    IF p <= Len(s) /\ IsSpace(s[p]) THEN SkipSpace(s, p + 1) ELSE p

(***************************************************************************)
(* Python values as the helpers see them: None, a str, an int or a bool    *)
(***************************************************************************)
PyNone    == [kind |-> "none", s |-> <<>>, n |-> 0, b |-> FALSE]
PyStr(t)  == [kind |-> "str",  s |-> t,    n |-> 0, b |-> FALSE]
PyInt(i)  == [kind |-> "int",  s |-> <<>>, n |-> i, b |-> FALSE]
PyBool(v) == [kind |-> "bool", s |-> <<>>, n |-> 0, b |-> v]

Digits == <<"0", "1", "2", "3", "4", "5", "6", "7", "8", "9">>

IsDigit(a) == \E d \in 1..10 : Digits[d] = a

DigitValue(a) == (CHOOSE d \in 1..10 : Digits[d] = a) - 1

\* str(i) of an int, one atom per character
RECURSIVE IntText(_)
IntText(i) ==
    IF i < 0 THEN <<"-">> \o IntText(0 - i)
    ELSE IF i < 10 THEN <<Digits[i + 1]>>
    ELSE IntText(i \div 10) \o <<Digits[(i % 10) + 1]>>

\* str(value)
str(value) ==
    CASE value.kind = "none" -> <<"None">>
      [] value.kind = "str"  -> value.s
      [] value.kind = "int"  -> IntText(value.n)
      [] value.kind = "bool" -> IF value.b THEN <<"True">> ELSE <<"False">>

\* str.lower of one atom: the words of the model that hold capitals
LowerAtom(a) ==
    CASE a \in {"NaN", "NAN", "Nan"}  -> "nan"
      [] a \in {"YES", "Yes"}         -> "yes"
      [] a \in {"TRUE", "True"}       -> "true"
      [] a \in {"FALSE", "False"}     -> "false"
      [] a = "None"                   -> "none"
      [] a = "N"                      -> "n"
      [] a = "A"                      -> "a"
      [] OTHER                        -> a

lower(s) == [i \in 1..Len(s) |-> LowerAtom(s[i])]

\* the string "nan", as one word or spelled in characters
IsNanText(s) == s = <<"nan">> \/ s = <<"n", "a", "n">>

(***************************************************************************)
(* Helpers                                                                 *)
(***************************************************************************)
\* pd.isna is false of every str, int and bool; None is caught before it.
is_missing(value) ==
    \/ value.kind = "none"
    \/ LET s == strip(str(value))
       IN  s = <<>> \/ IsNanText(lower(s))

clean_str(value, default) ==
    IF is_missing(value) THEN default ELSE strip(str(value))

as_bool(value) ==
    IF value.kind = "bool" THEN value.b
    ELSE IF is_missing(value) THEN FALSE
    ELSE lower(strip(str(value))) \in {<<"true">>, <<"1">>, <<"yes">>, <<"y">>, <<"on">>}

RECURSIVE DigitsValue(_)
DigitsValue(ds) ==
    IF ds = <<>> THEN 0
    ELSE 10 * DigitsValue(SubSeq(ds, 1, Len(ds) - 1)) + DigitValue(ds[Len(ds)])

\* int(float(t)): [ok |-> the text is a finite decimal literal, n |-> its value
\* truncated towards zero].  float accepts an optional sign, digits and at
\* most one point with a digit on either side of it; int() of "inf" raises.
IntOfFloat(t) ==
    LET signed == t # <<>> /\ t[1] \in {"-", "+"}
        u      == IF signed THEN Tail(t) ELSE t
        dots   == { i \in 1..Len(u) : u[i] = "." }
        cut    == IF dots = {} THEN Len(u) + 1 ELSE CHOOSE i \in dots : TRUE
        whole  == SubSeq(u, 1, cut - 1)
        frac   == SubSeq(u, cut + 1, Len(u))
        ok     == /\ Cardinality(dots) <= 1
                  /\ Len(whole) + Len(frac) >= 1
                  /\ \A i \in 1..Len(whole) : IsDigit(whole[i])
                  /\ \A i \in 1..Len(frac) : IsDigit(frac[i])
        mag    == DigitsValue(whole)
    IN  [ok |-> ok,
         n  |-> IF ~ok THEN 0
                ELSE IF signed /\ t[1] = "-" THEN 0 - mag ELSE mag]

as_int(value, default) ==
    IF is_missing(value) THEN default
    ELSE LET r == IntOfFloat(strip(str(value)))
         IN  IF r.ok THEN r.n ELSE default

WELCOME_TITLE == <<"00", SP, "Welcome">>

normalize_nav_title(title) ==
    IF title = <<>> THEN title
    ELSE LET t == strip(title)
         IN  IF t = WELCOME_TITLE THEN <<"Welcome">> ELSE t

(***************************************************************************)
(* Front matter: an insertion-ordered dict is a sequence of items          *)
(***************************************************************************)
Item(key, val) == [key |-> key, val |-> val]

Keys(fm) == [i \in 1..Len(fm) |-> fm[i].key]

HasKey(fm, key) == \E i \in 1..Len(fm) : fm[i].key = key

ValueOf(fm, key) == fm[CHOOSE i \in 1..Len(fm) : fm[i].key = key].val

\* dict.get(key, default) of a lookup table (a function on the ids it holds)
Get(table, key, default) == IF key \in DOMAIN table THEN table[key] ELSE default

\* mutant: the ids are written where their titles belong
build_frontmatter_ids(title, layout, nav_order, has_children, parent_id, titles, parents) ==
    LET base == << Item("title", PyStr(title)),
                   Item("layout", PyStr(layout)),
                   Item("nav_order", PyInt(nav_order)),
                   Item("has_children", PyBool(has_children)) >>
        toc  == IF has_children THEN <<Item("has_toc", PyBool(FALSE))>> ELSE <<>>
        gp_id == clean_str(PyStr(Get(parents, parent_id, <<>>)), <<>>)
        par  == IF parent_id # <<>>
                THEN <<Item("parent", PyStr(parent_id))>> ELSE <<>>
        gp   == IF par # <<>> /\ gp_id # <<>>
                THEN <<Item("grand_parent", PyStr(gp_id))>> ELSE <<>>
    IN  base \o toc \o par \o gp

build_frontmatter(title, layout, nav_order, has_children, parent_id, titles, parents) ==
    LET base == << Item("title", PyStr(title)),
                   Item("layout", PyStr(layout)),
                   Item("nav_order", PyInt(nav_order)),
                   Item("has_children", PyBool(has_children)) >>
        toc  == IF has_children THEN <<Item("has_toc", PyBool(FALSE))>> ELSE <<>>
        parent_title == normalize_nav_title(Get(titles, parent_id, <<>>))
        gp_id    == clean_str(PyStr(Get(parents, parent_id, <<>>)), <<>>)
        gp_title == normalize_nav_title(Get(titles, gp_id, <<>>))
        par  == IF parent_id # <<>> /\ parent_title # <<>>
                THEN <<Item("parent", PyStr(parent_title))>> ELSE <<>>
        gp   == IF par # <<>> /\ gp_id # <<>> /\ gp_title # <<>>
                THEN <<Item("grand_parent", PyStr(gp_title))>> ELSE <<>>
    IN  base \o toc \o par \o gp

\* yaml's rendering of one scalar
YamlScalar(val) ==
    CASE val.kind = "str"  -> IF val.s = <<>> THEN <<"''">> ELSE val.s
      [] val.kind = "int"  -> IntText(val.n)
      [] val.kind = "bool" -> IF val.b THEN <<"true">> ELSE <<"false">>
      [] val.kind = "none" -> <<"null">>

YamlKey(key) ==
    CASE key = "title"        -> "title:"
      [] key = "layout"       -> "layout:"
      [] key = "nav_order"    -> "nav_order:"
      [] key = "has_children" -> "has_children:"
      [] key = "has_toc"      -> "has_toc:"
      [] key = "parent"       -> "parent:"
      [] key = "grand_parent" -> "grand_parent:"

\* one line of the dump
YamlLine(item) == <<YamlKey(item.key), SP>> \o YamlScalar(item.val) \o <<NL>>

SORTED_KEYS ==
    <<"grand_parent", "has_children", "has_toc", "layout", "nav_order", "parent", "title">>

\* mutant: yaml.safe_dump with sort_keys left at its default, True
RECURSIVE DumpSorted(_, _)
DumpSorted(fm, k) ==
    IF k > Len(SORTED_KEYS) THEN <<>>
    ELSE (IF \E i \in 1..Len(fm) : fm[i].key = SORTED_KEYS[k]
          THEN YamlLine(fm[CHOOSE i \in 1..Len(fm) : fm[i].key = SORTED_KEYS[k]])
          ELSE <<>>) \o DumpSorted(fm, k + 1)

safe_dump_sorted(fm) == DumpSorted(fm, 1)

\* yaml.safe_dump(frontmatter, sort_keys=False, allow_unicode=True)
RECURSIVE safe_dump(_)
safe_dump(fm) ==
    IF fm = <<>> THEN <<>>
    ELSE YamlLine(fm[1]) \o safe_dump(Tail(fm))

safe_frontmatter_dump(fm) == <<MDHR, NL>> \o safe_dump(fm) \o <<MDHR, NL, NL>>

build_body(page_id, parent_id, lang_code, title) ==
    <<"<!-- page_id:", SP>> \o page_id \o <<SP, "-->", NL>>
    \o <<"<!-- parent_id:", SP>> \o parent_id \o <<SP, "-->", NL>>
    \o <<"<!-- lang_code:", SP>> \o lang_code \o <<SP, "-->", NL, NL>>
    \o <<"#", SP>> \o title \o <<NL, NL>>

(***************************************************************************)
(* Front matter of an existing file                                        *)
(***************************************************************************)
\* \A---\s*\n from the start: where the opening line can end, which is at
\* any newline of the whitespace that follows the '---'
OpenEnds(s) ==
    IF s # <<>> /\ s[1] = MDHR
    THEN { e \in 2..(SkipSpace(s, 2) - 1) : s[e] = NL }
    ELSE {}

\* \n---\s*\n with its \n at k: where the closing line can end
CloseEnds(s, k) ==
    IF s[k] = NL /\ s[k + 1] = MDHR
    THEN { f \in (k + 2)..(SkipSpace(s, k + 2) - 1) : s[f] = NL }
    ELSE {}

Largest(S) == CHOOSE x \in S : \A y \in S : y <= x
Smallest(S) == CHOOSE x \in S : \A y \in S : x <= y

\* FRONTMATTER_RE.match(s): the end of the match, 0 when there is none.  The
\* opening \s* is greedy (longest first), .*? takes the nearest closing line
\* and the closing \s* is greedy again.
FRONTMATTER_RE(s) ==
    LET closes(e) == { k \in (e + 1)..(Len(s) - 2) : CloseEnds(s, k) # {} }
        opens     == { e \in OpenEnds(s) : closes(e) # {} }
    IN  IF s = <<>> \/ opens = {} THEN 0
        ELSE Largest(CloseEnds(s, Smallest(closes(Largest(opens)))))

\* split_frontmatter(md_text): the pair (front matter block, rest of file)
split_frontmatter(md_text) ==
    LET end == FRONTMATTER_RE(md_text)
    IN  << SubSeq(md_text, 1, end), SubSeq(md_text, end + 1, Len(md_text)) >>

(***************************************************************************)
(* EU co-funding block                                                     *)
(***************************************************************************)
EU_BLOCK_MARKER == "<!-- EU_FUNDING_FOOTER -->"

\* The literal of lines 134-157 after .strip() + "\n", lexed into atoms.
EU_FUNDING_BLOCK ==
    << EU_BLOCK_MARKER, NL,
       HR, NL,
       NL,
       DOPEN, TXT, NL,
       DOPEN, TXT, NL,
       TXT, IMG, TXT, NL,
       DCLOSE, NL,
       DOPEN, TXT, NL,
       TXT, NL,
       DCLOSE, NL,
       DCLOSE, NL >>

\* s[p..q-1] is at most two newlines (\n{0,2} can consume it)
NlRun(s, p, q) == p <= q /\ q - p <= 2 /\ \A i \in p..(q - 1) : s[i] = NL

\* (?:\n{0,2}(?:---\s*\n{0,2})?)? from p: skipped, or taken through a '---'.
\* The whitespace it may consume after the rule, or without one, is consumed
\* as well by the \s* that follow, so the position kept is the one before it.
MdRuleEnds(s, p) ==
    {p} \cup
    { a + 1 : a \in { x \in p..(p + 2) :
                        x <= Len(s) /\ NlRun(s, p, x) /\ s[x] = MDHR } }

\* (?:\s*<hr\b[^>]*>\s*)?\s* from q: the positions of the atom that follows
HtmlRuleEnds(s, q) ==
    LET h == SkipSpace(s, q)
    IN  {h} \cup (IF h <= Len(s) /\ s[h] = HR THEN {SkipSpace(s, h + 1)} ELSE {})

\* the optional rules and the \s* that precede each alternative's footer
PrefixEnds(s, p) == UNION { HtmlRuleEnds(s, q) : q \in MdRuleEnds(s, p) }

\* <open\b.*?eu-funded\.jpg.*?</close>\s*(?=\Z) matched from position t
BlockAtEnd(s, t, open, close) ==
    /\ t <= Len(s)
    /\ s[t] = open
    /\ \E j \in (t + 1)..Len(s) :
          /\ s[j] = IMG
          /\ \E k \in (j + 1)..Len(s) :
                /\ s[k] = close
                /\ SkipSpace(s, k + 1) = Len(s) + 1

\* <!--\s*EU_FUNDING_FOOTER\s*-->.*?(?=\Z) matched from position t
MarkerToEnd(s, t) == t <= Len(s) /\ s[t] = EU_BLOCK_MARKER

\* EU_BLOCK_REMOVE_RE matches starting at position p (every match runs to \Z)
EU_BLOCK_REMOVE_RE(s, p) ==
    \E t \in PrefixEnds(s, p) :
        \/ MarkerToEnd(s, t)
        \/ BlockAtEnd(s, t, TOPEN, TCLOSE)
        \/ BlockAtEnd(s, t, DOPEN, DCLOSE)

\* re.sub scans from the left for the first position the pattern matches at
\* (0: there is none)
RECURSIVE FirstMatch(_, _)
FirstMatch(s, p) ==
    IF p > Len(s) THEN 0
    ELSE IF EU_BLOCK_REMOVE_RE(s, p) THEN p
    ELSE FirstMatch(s, p + 1)

\* re.sub(EU_BLOCK_REMOVE_RE, "", s): the leftmost match is cut out; it
\* reaches the end of s, so nothing is left to scan after it.
RemoveEuBlock(s) ==
    LET first == FirstMatch(s, 1)
    IN  IF first = 0 THEN s ELSE SubSeq(s, 1, first - 1)

\* mutant: the block is appended and no earlier footer is removed
ensure_eu_block_appended(md) == rstrip(md) \o <<NL, NL>> \o EU_FUNDING_BLOCK

ensure_eu_block_at_end(md) ==
    rstrip(RemoveEuBlock(rstrip(md))) \o <<NL, NL>> \o EU_FUNDING_BLOCK

\* The text upsert_markdown_file writes to path; exists and old are the
\* file as it is when the call is made.
upsert_markdown_file(exists, old, new_frontmatter_block, new_body_stub) ==
    IF exists
    THEN new_frontmatter_block \o ensure_eu_block_at_end(split_frontmatter(old)[2])
    ELSE new_frontmatter_block \o ensure_eu_block_at_end(new_body_stub)

(***************************************************************************)
(* Scenarios.  Each one runs part of the program on inputs drawn from      *)
(* bounded sets; the variables of the other scenarios stay idle.           *)
(***************************************************************************)
EmptyDict == [k \in {} |-> <<>>]

TextsUpTo(atoms, n) == UNION { [1..k -> atoms] : k \in 0..n }

FooterIdle == md_body = <<>> /\ once = <<>> /\ twice = <<>>
FilesIdle  == files = EmptyDict
UpsertIdle == origin = [kind |-> "idle", custom |-> <<>>] /\ front = <<>> /\ calls = 0
FmIdle     == args = [idle |-> TRUE] /\ frontmatter = <<>> /\ block = <<>>
MainIdle   ==
    /\ sheet = [exists |-> FALSE, columns |-> {}, rows |-> <<>>]
    /\ title_by_page_id = EmptyDict
    /\ parent_by_page_id = EmptyDict
    /\ row = 0 /\ wrote = 0 /\ skipped = 0 /\ passed = <<>>

(***************************************************************************)
(* Scenario: the footer normaliser applied twice to a body                 *)
(***************************************************************************)
MaxBody == 5

BodyAtoms ==
    {TXT, NL, SP, MDHR, HR, EU_BLOCK_MARKER, TOPEN, TCLOSE, DOPEN, DCLOSE, IMG}

FooterInit ==
    /\ pc = "body"
    /\ md_body \in TextsUpTo(BodyAtoms, MaxBody)
    /\ once = <<>>
    /\ twice = <<>>
    /\ FilesIdle /\ UpsertIdle /\ FmIdle /\ MainIdle

FirstPass ==
    /\ pc = "body"
    /\ once' = ensure_eu_block_at_end(md_body)
    /\ pc' = "once"
    /\ UNCHANGED <<md_body, twice, files, upsertVars, fmVars, mainVars>>

SecondPass ==
    /\ pc = "once"
    /\ twice' = ensure_eu_block_at_end(once)
    /\ pc' = "twice"
    /\ UNCHANGED <<md_body, once, files, upsertVars, fmVars, mainVars>>

FooterNext == FirstPass \/ SecondPass

FooterSpec == FooterInit /\ [][FooterNext]_vars

\* What a normalised body holds before the separator and the footer block
KeptText(out) == SubSeq(out, 1, Len(out) - Len(EU_FUNDING_BLOCK) - 2)

EndsWithFooter(out) ==
    /\ Len(out) >= Len(EU_FUNDING_BLOCK) + 2
    /\ SubSeq(out, Len(out) - Len(EU_FUNDING_BLOCK) - 1, Len(out))
          = <<NL, NL>> \o EU_FUNDING_BLOCK

\* t, and t without a horizontal rule ('---' or <hr>) that ends it
WithoutRule(t) ==
    {t} \cup
    (IF t # <<>> /\ t[Len(t)] \in {MDHR, HR}
     THEN {rstrip(SubSeq(t, 1, Len(t) - 1))} ELSE {})

\* C1: footer idempotence: normalising a normalised body changes nothing,
\* ensure_eu_block_at_end(ensure_eu_block_at_end(b)) = ensure_eu_block_at_end(b).
C1_FooterIdempotent == pc = "twice" => twice = once

\* C3: only a footer anchored at the very end is removed: from a body that
\* ends with the canonical footer, the normaliser deletes nothing but that
\* footer and a horizontal rule directly before it.
C3_OnlyTrailingFooterRemoved ==
    pc = "twice" => KeptText(twice) \in WithoutRule(KeptText(once))

\* The position where the old table-based block at the end of x starts: the
\* last <table, with eu-funded.jpg inside and its </table> ending x (0: none).
LegacyTableStart(x) ==
    LET starts == { i \in 1..(Len(x) - 2) :
                      /\ x[i] = TOPEN
                      /\ x[Len(x)] = TCLOSE
                      /\ \E j \in (i + 1)..(Len(x) - 1) : x[j] = IMG
                      /\ \A j \in (i + 1)..(Len(x) - 1) : x[j] \notin {TOPEN, TCLOSE} }
    IN  IF starts = {} THEN 0 ELSE CHOOSE i \in starts : TRUE

\* the content before the legacy block, with or without the rules
\* ('---', <hr>, or '---' then <hr>) that may precede the block
LegacyContents(x) ==
    LET pre == rstrip(SubSeq(x, 1, LegacyTableStart(x) - 1))
    IN  UNION { WithoutRule(c) : c \in WithoutRule(pre) }

\* C5: legacy footer replacement: a body ending with the old table block
\* comes back as the content before that block (and before its optional
\* rule), right-trimmed, then two newlines and one canonical footer.
C5_LegacyTableReplaced ==
    (pc # "body" /\ LegacyTableStart(rstrip(md_body)) # 0)
        => /\ EndsWithFooter(once)
           /\ KeptText(once) \in LegacyContents(rstrip(md_body))

(***************************************************************************)
(* Scenario: one page regenerated again and again; its file starts absent, *)
(* as a generated page that was edited by hand, or as any text             *)
(***************************************************************************)
MaxText    == 3
MaxUpserts == 2

WELCOME_PAGE_ID == <<"00000000_en">>
PageA == <<"01000000_en">>
PageB == <<"01010000_en">>
PageC == <<"01010100_en">>
PageD == <<"01010101_en">>

\* OUTPUT_DIR / f"{page_id}.md"
out_path(page_id) == page_id \o <<".md">>

FileAtoms ==
    {TXT, NL, SP, MDHR, HR, EU_BLOCK_MARKER, TOPEN, TCLOSE, DOPEN, DCLOSE, IMG}

UpsertTitles == {<<"Guide">>, <<"User", SP, "Guide">>}

\* what main hands to upsert_markdown_file for a top-level page (lines 306-327)
PageFront(title) ==
    safe_frontmatter_dump(
        build_frontmatter(title, <<"home">>, 1, FALSE, <<>>, EmptyDict, EmptyDict))

PageStub(title) == build_body(PageA, <<>>, <<"en">>, title)

\* a page as an earlier run left it, with hand-written text before the footer
EditedPage(custom) ==
    PageFront(<<"Draft">>) \o custom \o <<NL, NL>> \o EU_FUNDING_BLOCK

UpsertInit ==
    /\ pc = "upsert"
    /\ front = <<>>
    /\ calls = 0
    /\ \/ /\ origin = [kind |-> "absent", custom |-> <<>>]
          /\ files = EmptyDict
       \/ \E custom \in TextsUpTo(FileAtoms, MaxText) :
             /\ origin = [kind |-> "page", custom |-> custom]
             /\ files = [p \in {out_path(PageA)} |-> EditedPage(custom)]
       \/ \E text \in TextsUpTo(FileAtoms, MaxText) :
             /\ origin = [kind |-> "raw", custom |-> text]
             /\ files = [p \in {out_path(PageA)} |-> text]
    /\ FooterIdle /\ FmIdle /\ MainIdle

\* path.exists(), path.read_text() and path.write_text() around the upsert
WriteFile(fs, path, new_frontmatter_block, new_body_stub) ==
    LET exists == path \in DOMAIN fs
        old    == IF exists THEN fs[path] ELSE <<>>
        text   == upsert_markdown_file(exists, old, new_frontmatter_block, new_body_stub)
    IN  [p \in DOMAIN fs \cup {path} |-> IF p = path THEN text ELSE fs[p]]

Upsert ==
    /\ pc = "upsert"
    /\ calls < MaxUpserts
    /\ \E title \in UpsertTitles :
          /\ front' = PageFront(title)
          /\ files' = WriteFile(files, out_path(PageA), PageFront(title), PageStub(title))
    /\ calls' = calls + 1
    /\ UNCHANGED <<pc, origin, footerVars, fmVars, mainVars>>

UpsertNext == Upsert

UpsertSpec == UpsertInit /\ [][UpsertNext]_vars

TheFile == files[out_path(PageA)]

\* the file after its new front-matter block
BodyOf(text, fb) == SubSeq(text, Len(fb) + 1, Len(text))

StartsWith(text, fb) == Len(text) >= Len(fb) /\ SubSeq(text, 1, Len(fb)) = fb

Count(text, atom) == Cardinality({ i \in 1..Len(text) : text[i] = atom })

\* C2: upsert preserves mid-body content: an existing file made of a front
\* matter block, custom text and the footer is rewritten as the new front
\* matter block, the same custom text and the footer.
C2_UpsertKeepsCustomText ==
    (pc = "upsert" /\ origin.kind = "page" /\ calls >= 1)
        => /\ StartsWith(TheFile, front)
           /\ EndsWithFooter(BodyOf(TheFile, front))
           /\ strip(KeptText(BodyOf(TheFile, front))) = strip(origin.custom)

\* C4: after one or more upserts of a path, whatever the file was before,
\* the file ends with the canonical footer block and holds the footer
\* marker exactly once.
C4_ExactlyOneFooter ==
    (pc = "upsert" /\ calls >= 1)
        => /\ EndsWithFooter(TheFile)
           /\ Count(TheFile, EU_BLOCK_MARKER) = 1

\* a second regeneration of a file that started as raw text with a footer
\* marker in it
C4_Witness ==
    /\ pc = "upsert"
    /\ calls = 2
    /\ origin.kind = "raw"
    /\ Count(origin.custom, EU_BLOCK_MARKER) >= 1

(***************************************************************************)
(* Scenario: build_frontmatter on a page, a Title Index and a Parent       *)
(* Index, and the dump of what it returns                                  *)
(***************************************************************************)
MaxNav == 2

PageX == <<"09000000_en">>     \* an id no row of the sheet has

\* titles as the Title Index can hold them
IndexTitles ==
    { <<>>, <<SP>>, <<"nan">>, <<"Setup">>, <<SP, "Setup", SP>>, WELCOME_TITLE }

\* parent ids as the Parent Index can hold them for PageB
IndexParents == { <<>>, PageC, <<SP>> \o PageC \o <<SP>>, PageX }

ParentIndexes ==
    {EmptyDict} \cup
    { [p \in {PageB, PageC} |-> IF p = PageB THEN b ELSE c] :
        b \in IndexParents, c \in {<<>>, PageD} }

FmInit ==
    /\ pc = "args"
    /\ \E t \in [{PageB, PageC, PageD} -> IndexTitles], ps \in ParentIndexes,
          parent_id \in {<<>>, PageB, PageX},
          has_children \in BOOLEAN, nav_order \in 1..MaxNav :
          args = [ title |-> <<"Guide">>, layout |-> <<"home">>,
                   nav_order |-> nav_order, has_children |-> has_children,
                   parent_id |-> parent_id,
                   title_by_page_id |-> t, parent_by_page_id |-> ps ]
    /\ frontmatter = <<>>
    /\ block = <<>>
    /\ FooterIdle /\ FilesIdle /\ UpsertIdle /\ MainIdle

Build ==
    /\ pc = "args"
    /\ frontmatter' = build_frontmatter(args.title, args.layout, args.nav_order,
                                        args.has_children, args.parent_id,
                                        args.title_by_page_id, args.parent_by_page_id)
    /\ pc' = "built"
    /\ UNCHANGED <<args, block, footerVars, files, upsertVars, mainVars>>

Dump ==
    /\ pc = "built"
    /\ block' = safe_frontmatter_dump(frontmatter)
    /\ pc' = "dumped"
    /\ UNCHANGED <<args, frontmatter, footerVars, files, upsertVars, mainVars>>

FmNext == Build \/ Dump

FmSpec == FmInit /\ [][FmNext]_vars

Built == pc \in {"built", "dumped"}

\* the title an id resolves to: looked up in the Title Index and normalised
Resolved(id) == normalize_nav_title(Get(args.title_by_page_id, id, <<>>))

\* C6: parent and grand_parent are present only with a string that is not
\* empty, null or NaN-like; they are omitted when the looked-up title is
\* missing or empty; the raw parent id is written under no key.
C6_NoMissingParentValues ==
    Built =>
        /\ \A i \in 1..Len(frontmatter) :
              frontmatter[i].key \in {"parent", "grand_parent"}
                  => /\ frontmatter[i].val.kind = "str"
                     /\ ~is_missing(frontmatter[i].val)
        /\ Resolved(args.parent_id) = <<>> => ~HasKey(frontmatter, "parent")
        /\ ~HasKey(frontmatter, "parent") => ~HasKey(frontmatter, "grand_parent")
        /\ args.parent_id # <<>>
              => \A i \in 1..Len(frontmatter) : frontmatter[i].val # PyStr(args.parent_id)

\* page A has parent B, B has parent C in the Parent Index, and the titles
\* of B and C resolve to non-empty strings
Chain ==
    /\ args.parent_id = PageB
    /\ strip(Get(args.parent_by_page_id, PageB, <<>>)) = PageC
    /\ Resolved(PageB) # <<>>
    /\ Resolved(PageC) # <<>>

\* C7: with A's parent B and B's parent C, both titles resolving non-empty,
\* parent is the normalised title of B and grand_parent the normalised
\* title of C (one hop up, not C's own parent), and no value is a raw id.
C7_ParentAndGrandParentTitles ==
    (Built /\ Chain) =>
        /\ HasKey(frontmatter, "parent")
        /\ ValueOf(frontmatter, "parent") = PyStr(Resolved(PageB))
        /\ HasKey(frontmatter, "grand_parent")
        /\ ValueOf(frontmatter, "grand_parent") = PyStr(Resolved(PageC))
        /\ \A i \in 1..Len(frontmatter) :
              frontmatter[i].val \notin {PyStr(PageB), PyStr(PageC), PyStr(PageD)}

\* a chain A -> B -> C -> D whose three titles all differ
C7_Witness ==
    /\ Built /\ Chain
    /\ Get(args.parent_by_page_id, PageC, <<>>) = PageD
    /\ Resolved(PageB) = <<"Welcome">>
    /\ Resolved(PageC) = <<"Setup">>
    /\ Resolved(PageD) = <<"nan">>
    /\ HasKey(frontmatter, "grand_parent")

KEY_ORDER ==
    <<"title", "layout", "nav_order", "has_children", "has_toc", "parent", "grand_parent">>

\* ks is KEY_ORDER with some of its keys left out
InKeyOrder(ks) ==
    \E kept \in SUBSET (1..Len(KEY_ORDER)) :
        /\ Len(ks) = Cardinality(kept)
        /\ \A i \in 1..Len(ks) :
              \E k \in kept :
                  /\ Cardinality({ j \in kept : j <= k }) = i
                  /\ ks[i] = KEY_ORDER[k]

\* the keys of a serialised block, in the order of its lines
RECURSIVE BlockKeys(_)
BlockKeys(b) ==
    IF b = <<>> THEN <<>>
    ELSE (IF \E k \in 1..Len(KEY_ORDER) : YamlKey(KEY_ORDER[k]) = b[1]
          THEN <<b[1]>> ELSE <<>>) \o BlockKeys(Tail(b))

\* C10: the keys come in the fixed order; the first four are always there;
\* has_toc is there exactly when has_children is true, and is false; and
\* the serialised block lists the keys in the dict's insertion order.
C10_KeyOrder ==
    Built =>
        /\ InKeyOrder(Keys(frontmatter))
        /\ Len(frontmatter) >= 4
        /\ SubSeq(Keys(frontmatter), 1, 4) = SubSeq(KEY_ORDER, 1, 4)
        /\ HasKey(frontmatter, "has_toc") <=> args.has_children
        /\ HasKey(frontmatter, "has_toc")
              => ValueOf(frontmatter, "has_toc") = PyBool(FALSE)
        /\ pc = "dumped"
              => BlockKeys(block)
                   = [i \in 1..Len(frontmatter) |-> YamlKey(frontmatter[i].key)]

\* a hub page with a parent and a grandparent: all seven keys, serialised
C10_Witness ==
    /\ pc = "dumped"
    /\ Len(frontmatter) = 7
    /\ Len(BlockKeys(block)) = 7

(***************************************************************************)
(* Scenario: main() on a spreadsheet                                       *)
(***************************************************************************)
MaxRows == 2
MaxCell == 3

REQUIRED_COLS == {"page_id", "title"}
OPTIONAL_COLS == {"layout", "lang_code", "parent_id", "has_children", "display_order"}

\* row.get(col, default) on a data frame read with dtype=str and fillna("")
RowGet(columns, r, col, default) ==
    IF col \in columns THEN PyStr(r[col]) ELSE default

\* dict(zip(df[key], df[val])): of two rows with one key the later one wins
ZipDict(rows, key, val) ==
    [ k \in { rows[i][key] : i \in 1..Len(rows) } |->
        rows[Largest({ i \in 1..Len(rows) : rows[i][key] = k })][val] ]

\* df[col] = df[col].astype(str).str.strip(), for the two key columns
StripKeyColumns(rows) ==
    [ i \in 1..Len(rows) |->
        [rows[i] EXCEPT !.page_id = strip(@), !.title = strip(@)] ]

\* mutant: no row is taken for the root row
is_welcome_never(page_id) == FALSE

is_welcome(page_id) == page_id = WELCOME_PAGE_ID

\* mutant: the fallback is taken for negative numbers only
nav_order_of_negative(value) ==
    LET n == as_int(value, 0) IN IF n < 0 THEN 1 ELSE n

\* nav_order = as_int(display_order, default=0), with 1 for anything <= 0
nav_order_of(value) ==
    LET n == as_int(value, 0) IN IF n <= 0 THEN 1 ELSE n

SheetRow(page_id, title, parent_id, has_children, display_order) ==
    [ page_id |-> page_id, title |-> title, parent_id |-> parent_id,
      has_children |-> has_children, display_order |-> display_order,
      layout |-> <<>>, lang_code |-> <<>> ]

PageIdCells == { <<>>, <<SP>>, WELCOME_PAGE_ID, PageA, <<SP>> \o PageB }

OrderCells == { <<>>, <<"0">>, <<"-", "2">>, <<"3", ".", "0">>, <<"x">> }

\* the rows of the sheets: a hub page A, its child B (no title), the root
MainRows ==
    { SheetRow(id,
               IF id = PageA THEN <<"Guide">>
               ELSE IF id = WELCOME_PAGE_ID THEN WELCOME_TITLE ELSE <<>>,
               IF id = <<SP>> \o PageB THEN PageA \o <<SP>> ELSE <<>>,
               IF id = PageA THEN <<"yes">> ELSE <<>>,
               order) :
        id \in PageIdCells, order \in OrderCells }

CellChars == {"0", "1", "7", "-", ".", "x", SP}

\* one-row sheets whose display_order cell is any text of up to MaxCell characters
CellRows ==
    { SheetRow(PageA, <<"Guide">>, <<>>, <<>>, order) :
        order \in TextsUpTo(CellChars, MaxCell) }

RowLists(rows, n) == UNION { [1..k -> rows] : k \in 0..n }

Sheets ==
    { [exists |-> FALSE, columns |-> {}, rows |-> <<>>] }
    \cup { [exists |-> TRUE, columns |-> {"page_id"} \cup OPTIONAL_COLS, rows |-> <<>>] }
    \cup { [exists |-> TRUE, columns |-> cols, rows |-> rows] :
             cols \in {REQUIRED_COLS, REQUIRED_COLS \cup OPTIONAL_COLS},
             rows \in RowLists(MainRows, MaxRows) }
    \cup { [exists |-> TRUE, columns |-> REQUIRED_COLS \cup OPTIONAL_COLS, rows |-> <<r>>] :
             r \in CellRows }

MainInit ==
    /\ pc = "main"
    /\ sheet \in Sheets
    /\ files \in { EmptyDict, [p \in {out_path(PageA)} |-> EditedPage(<<TXT>>)] }
    /\ title_by_page_id = EmptyDict
    /\ parent_by_page_id = EmptyDict
    /\ row = 0 /\ wrote = 0 /\ skipped = 0 /\ passed = <<>>
    /\ FooterIdle /\ UpsertIdle /\ FmIdle

\* lines 254-255
RaiseFileNotFound ==
    /\ pc = "main"
    /\ ~sheet.exists
    /\ pc' = "FileNotFoundError"
    /\ UNCHANGED <<files, footerVars, upsertVars, fmVars, mainVars>>

\* lines 263-266
RaiseKeyError ==
    /\ pc = "main"
    /\ sheet.exists
    /\ ~(REQUIRED_COLS \subseteq sheet.columns)
    /\ pc' = "KeyError"
    /\ UNCHANGED <<files, footerVars, upsertVars, fmVars, mainVars>>

\* lines 257-280: the key columns are trimmed, the two lookups built
Load ==
    /\ pc = "main"
    /\ sheet.exists
    /\ REQUIRED_COLS \subseteq sheet.columns
    /\ LET rows == StripKeyColumns(sheet.rows)
       IN  /\ sheet' = [sheet EXCEPT !.rows = rows]
           /\ title_by_page_id' = ZipDict(rows, "page_id", "title")
           /\ parent_by_page_id' =
                 IF "parent_id" \in sheet.columns
                 THEN ZipDict([i \in 1..Len(rows) |->
                                 [rows[i] EXCEPT !.parent_id = strip(@)]],
                              "page_id", "parent_id")
                 ELSE EmptyDict
    /\ wrote' = 0
    /\ skipped' = 0
    /\ row' = 1
    /\ pc' = "loop"
    /\ UNCHANGED <<files, passed, footerVars, upsertVars, fmVars>>

InLoop == pc = "loop" /\ row <= Len(sheet.rows)

ThisPageId == clean_str(PyStr(sheet.rows[row].page_id), <<>>)

\* lines 283-285
SkipBlank ==
    /\ InLoop
    /\ ThisPageId = <<>>
    /\ row' = row + 1
    /\ UNCHANGED <<pc, files, sheet, title_by_page_id, parent_by_page_id,
                   wrote, skipped, passed, footerVars, upsertVars, fmVars>>

\* lines 287-290
SkipWelcome ==
    /\ InLoop
    /\ ThisPageId # <<>>
    /\ is_welcome(ThisPageId)
    /\ skipped' = skipped + 1
    /\ row' = row + 1
    /\ UNCHANGED <<pc, files, sheet, title_by_page_id, parent_by_page_id,
                   wrote, passed, footerVars, upsertVars, fmVars>>

\* lines 293-329
WritePage ==
    /\ InLoop
    /\ ThisPageId # <<>>
    /\ ~is_welcome(ThisPageId)
    /\ LET r            == sheet.rows[row]
           cols         == sheet.columns
           page_id      == ThisPageId
           title        == clean_str(RowGet(cols, r, "title", PyNone), page_id)
           layout       == clean_str(RowGet(cols, r, "layout", PyNone), <<"home">>)
           lang_code    == clean_str(RowGet(cols, r, "lang_code", PyNone), <<"en">>)
           parent_id    == IF "parent_id" \in cols
                           THEN clean_str(RowGet(cols, r, "parent_id", PyNone), <<>>)
                           ELSE <<>>
           has_children == as_bool(RowGet(cols, r, "has_children", PyBool(FALSE)))
           nav_order    == nav_order_of(RowGet(cols, r, "display_order", PyInt(0)))
           built        == build_frontmatter(title, layout, nav_order, has_children,
                                             parent_id, title_by_page_id,
                                             parent_by_page_id)
           stub_body    == build_body(page_id, parent_id, lang_code, title)
       IN  /\ files' = WriteFile(files, out_path(page_id),
                                 safe_frontmatter_dump(built), stub_body)
           /\ passed' = Append(passed, [row |-> row, path |-> out_path(page_id),
                                        nav_order |-> nav_order])
    /\ wrote' = wrote + 1
    /\ row' = row + 1
    /\ UNCHANGED <<pc, sheet, title_by_page_id, parent_by_page_id, skipped,
                   footerVars, upsertVars, fmVars>>

\* lines 331-333
Report ==
    /\ pc = "loop"
    /\ row > Len(sheet.rows)
    /\ pc' = "done"
    /\ UNCHANGED <<files, footerVars, upsertVars, fmVars, mainVars>>

MainNext ==
    \/ RaiseFileNotFound
    \/ RaiseKeyError
    \/ Load
    \/ SkipBlank
    \/ SkipWelcome
    \/ WritePage
    \/ Report

MainSpec == MainInit /\ [][MainNext]_vars

\* text holds sub as a run of adjacent atoms
Holds(text, sub) ==
    \E i \in 0..(Len(text) - Len(sub)) : SubSeq(text, i + 1, i + Len(sub)) = sub

\* the display_order cell read as a decimal number: a literal with an
\* optional sign, digits and at most one point
Cell(i) == strip(sheet.rows[i].display_order)

HasOrderCell(i) == "display_order" \in sheet.columns

IsNumber(i) == HasOrderCell(i) /\ IntOfFloat(Cell(i)).ok

IsNegative(i) == Cell(i) # <<>> /\ Cell(i)[1] = "-"

\* some digit of the literal is not 0
IsNonZero(i) == \E k \in 1..Len(Cell(i)) : IsDigit(Cell(i)[k]) /\ Cell(i)[k] # "0"

Truncated(i) == IntOfFloat(Cell(i)).n

\* the upsert that was made last wrote the nav_order line it was passed
LastWritten ==
    passed # <<>> =>
        LET last == passed[Len(passed)]
        IN  Holds(files[last.path],
                  <<NL, "nav_order:", SP>> \o IntText(last.nav_order) \o <<NL>>)

\* C8 as claimed: every nav_order passed on and written is an integer >= 1;
\* a cell that is 0, negative, missing or no number, or a missing column,
\* gives 1, and a positive value gives its truncated integer.
C8_NavOrderAsClaimed ==
    /\ LastWritten
    /\ \A k \in 1..Len(passed) :
          LET i == passed[k].row
          IN  /\ passed[k].nav_order >= 1
              /\ (IsNumber(i) /\ ~IsNegative(i) /\ IsNonZero(i))
                    => passed[k].nav_order = Truncated(i)
              /\ ~(IsNumber(i) /\ ~IsNegative(i) /\ IsNonZero(i))
                    => passed[k].nav_order = 1

\* C8, amended: every nav_order passed on and written is an integer >= 1;
\* a cell whose number truncates to 1 or more gives that integer, and every
\* other cell (0, negative, a positive value below 1, missing, no number)
\* and a missing column give 1.
C8_NavOrderAtLeastOne ==
    /\ LastWritten
    /\ \A k \in 1..Len(passed) :
          LET i == passed[k].row
          IN  /\ passed[k].nav_order >= 1
              /\ (IsNumber(i) /\ Truncated(i) >= 1)
                    => passed[k].nav_order = Truncated(i)
              /\ ~(IsNumber(i) /\ Truncated(i) >= 1)
                    => passed[k].nav_order = 1

\* a finished run that wrote one page from the cell "-2", with nav_order 1,
\* and one from the cell "3.0", with nav_order 3
C8_Witness ==
    /\ pc = "done"
    /\ Len(passed) = 2
    /\ Cell(passed[1].row) = <<"-", "2">> /\ passed[1].nav_order = 1
    /\ Cell(passed[2].row) = <<"3", ".", "0">> /\ passed[2].nav_order = 3

\* the rows the loop has gone through
Done(n) == { i \in 1..Len(sheet.rows) : i <= n }

IdOf(i) == strip(sheet.rows[i].page_id)

Pages(n) == { i \in Done(n) : IdOf(i) # <<>> /\ IdOf(i) # WELCOME_PAGE_ID }

\* C9: a root row writes no file and counts as skipped only; every other
\* row with a page_id is upserted once, to <page_id>.md, and counts as
\* written only; a row without page_id changes nothing; at the end
\* written + skipped is the number of rows with a page_id.
C9_LoopCounts ==
    pc \in {"loop", "done"} =>
        /\ skipped = Cardinality({ i \in Done(row - 1) : IdOf(i) = WELCOME_PAGE_ID })
        /\ wrote = Cardinality(Pages(row - 1))
        /\ Len(passed) = wrote
        /\ \A k \in 1..Len(passed) :
              /\ passed[k].row \in Pages(row - 1)
              /\ passed[k].path = out_path(IdOf(passed[k].row))
              /\ \A j \in 1..Len(passed) : passed[j].row = passed[k].row => j = k
        /\ DOMAIN files \subseteq
              {out_path(PageA)} \cup { out_path(IdOf(i)) : i \in Pages(row - 1) }
        /\ \A i \in Pages(row - 1) : out_path(IdOf(i)) \in DOMAIN files
        /\ out_path(WELCOME_PAGE_ID) \notin DOMAIN files
        /\ pc = "done" =>
              wrote + skipped
                = Cardinality({ i \in 1..Len(sheet.rows) : IdOf(i) # <<>> })

\* a finished run over a root row and a page row
C9_Witness ==
    /\ pc = "done"
    /\ Len(sheet.rows) = 2
    /\ skipped = 1
    /\ wrote = 1

====
